---- MODULE Spec2Model ----
(***************************************************************************)
(* CellularAutomatonLighting2D (Main.cpp): the Field of wall cells, the    *)
(* double-buffered brightness grid and the lights that move over it.       *)
(*                                                                         *)
(* Doubles are modelled in fixed point.  A ColorF channel is an integer in *)
(* 0..ColorUnit (ColorUnit is 1.0).  A position is an integer number of    *)
(* 1/PosScale pixels, and a velocity is the displacement, in those units,  *)
(* of one frame (dt = 1/60 s), so that center += velocity*dt is an exact   *)
(* addition.  Products with a constant truncate toward zero.               *)
(***************************************************************************)
EXTENDS Integers, Sequences, FiniteSets, TLC

\* ---------------------------------------------------------------- bounds
\* cells per row / per column of the field (image size / gridUnitPixel)
GridW == 5
GridH == 5
\* number of lights created by init() (the program creates 8)
MaxLights == 2
\* number of update() calls explored
MaxFrames == 2
\* largest image width and height, in pixels, given to Field::Field
MaxImage == 6
\* largest width and height given to a Grid2D under test
MaxDim == 3

\* ------------------------------------------------------ program constants
GridUnitPixel == 32
SubSteps == 30
ColorUnit == 10000
PosScale == 90
\* Main: Window::Resize(1280, 736); init(): num
WindowWidth == 1280
WindowHeight == 736
InitNum == 8

\* ------------------------------------------------------------ arithmetic
Max(a, b) == IF a >= b THEN a ELSE b
Min(a, b) == IF a <= b THEN a ELSE b
\* C++ integer division and double-to-int conversion: toward zero
TruncDiv(a, b) == IF a >= 0 THEN a \div b ELSE -((-a) \div b)

Point(px, py) == [x |-> px, y |-> py]
PAdd(p, q) == [x |-> p.x + q.x, y |-> p.y + q.y]

\* ------------------------------------------------------------ Grid2D<T>
\* m_grid is a vector of rows; row y (0-based) is g[y + 1].
Grid2D(w, h, value) == [yy \in 1..h |-> [xx \in 1..w |-> value]]

\* std::vector::resize of one row: the first elements stay, new ones are value
ResizeLine(line, w, value) ==
    [xx \in 1..w |-> IF xx <= Len(line) THEN line[xx] ELSE value]

\* resize(x, y, value): m_grid.resize(y) appends empty rows, then every row
\* is resized to x
GridResize(g, w, h, value) ==
    [yy \in 1..h |-> ResizeLine(IF yy <= Len(g) THEN g[yy] ELSE << >>, w, value)]

GridReset(g, value) == [yy \in 1..Len(g) |-> [xx \in 1..Len(g[yy]) |-> value]]

GridHeight(g) == Len(g)

GridWidth(g) == IF Len(g) = 0 THEN 0 ELSE Len(g[1])

\* (variant: the column test admits x == size)
IsValidInclusive(g, p) ==
    /\ 0 <= p.y
    /\ p.y < Len(g)
    /\ 0 <= p.x
    /\ p.x <= Len(g[p.y + 1])

IsValid(g, p) ==
    /\ 0 <= p.y
    /\ p.y < Len(g)
    /\ 0 <= p.x
    /\ p.x < Len(g[p.y + 1])

\* operator[](Point): unchecked; only ever applied here to valid points
GridAt(g, p) == g[p.y + 1][p.x + 1]

GridSet(g, p, value) == [g EXCEPT ![p.y + 1][p.x + 1] = value]

\* ------------------------------------------------------- DoubleBuffer<T>
WriteIndex(cur) == cur

\* (variant: read() and write() give the same instance)
ReadIndexSame(cur) == cur % 2

ReadIndex(cur) == (cur + 1) % 2

FlipIndex(cur) == (cur + 1) % 2

\* ------------------------------------------------------------- colours
Color(cr, cg, cb) == [r |-> cr, g |-> cg, b |-> cb]

Black == Color(0, 0, 0)

\* HSV(120 + 30*i, 0.7, 1.0) for i = 0..7, as RGB
LightColors ==
    << Color((3 * ColorUnit) \div 10, ColorUnit, (3 * ColorUnit) \div 10),
       Color((3 * ColorUnit) \div 10, ColorUnit, (65 * ColorUnit) \div 100),
       Color((3 * ColorUnit) \div 10, ColorUnit, ColorUnit),
       Color((3 * ColorUnit) \div 10, (65 * ColorUnit) \div 100, ColorUnit),
       Color((3 * ColorUnit) \div 10, (3 * ColorUnit) \div 10, ColorUnit),
       Color((65 * ColorUnit) \div 100, (3 * ColorUnit) \div 10, ColorUnit),
       Color(ColorUnit, (3 * ColorUnit) \div 10, ColorUnit),
       Color(ColorUnit, (3 * ColorUnit) \div 10, (65 * ColorUnit) \div 100) >>

\* ------------------------------------------------------------ the Field
FieldWall == TRUE

FieldSpace == FALSE

\* (variant: the last column is tested with x == width)
InitWallsOffByOne(g) ==
    [yy \in 1..GridHeight(g) |->
        [xx \in 1..GridWidth(g) |->
            IF \/ xx - 1 = 0
               \/ yy - 1 = 0
               \/ xx - 1 = GridWidth(g)
               \/ (yy - 1) + 1 = GridHeight(g)
            THEN FieldWall
            ELSE FieldSpace]]

\* init(): the wall grid, every cell assigned in the double loop
InitWalls(g) ==
    [yy \in 1..GridHeight(g) |->
        [xx \in 1..GridWidth(g) |->
            IF \/ xx - 1 = 0
               \/ yy - 1 = 0
               \/ (xx - 1) + 1 = GridWidth(g)
               \/ (yy - 1) + 1 = GridHeight(g)
            THEN FieldWall
            ELSE FieldSpace]]

IsWall(walls, p) == GridAt(walls, p) = FieldWall

\* gridRect(p) as <<left, top, right, bottom>> in pixels
GridRect(p) ==
    << GridUnitPixel * p.x, GridUnitPixel * p.y,
       GridUnitPixel * p.x + GridUnitPixel, GridUnitPixel * p.y + GridUnitPixel >>

\* mouseGridPos(): integer division of the pointer's pixel position
MouseGridPos(mouse) ==
    Point(TruncDiv(mouse.x, GridUnitPixel), TruncDiv(mouse.y, GridUnitPixel))

\* Vec2::asPoint() of a position: pixels, truncated toward zero
AsPoint(v) == Point(TruncDiv(v.x, PosScale), TruncDiv(v.y, PosScale))

\* gridPos(p): Floor(1.0 * p / gridUnitPixel)
GridPos(p) == Point(p.x \div GridUnitPixel, p.y \div GridUnitPixel)

\* ------------------------------------------------- stepLightDiffusion()
ColorMax(a, b) == Color(Max(a.r, b.r), Max(a.g, b.g), Max(a.b, b.b))

\* the neighbour table of stepLightDiffusion, index i = 0..7 is entry i + 1
DiffusionNeighbors ==
    << Point(-1, -1), Point(0, -1), Point(1, -1),
       Point(-1, 0),                Point(1, 0),
       Point(-1, 1),  Point(0, 1),  Point(1, 1) >>

\* (variant: an adjacent attenuation of 0.8)
AttenuationAdjacentWeak(v) == (v * 8) \div 10

\* value * attenuationAdjacent, attenuationAdjacent = 0.9
AttenuationAdjacent(v) == (v * 9) \div 10

\* value * attenuationDiagonal, attenuationDiagonal = pow(0.9, sqrt2) = 0.8616
AttenuationDiagonal(v) == (v * 8616) \div 10000

IsDiagonalIndex(i) == i = 0 \/ i = 2 \/ i = 5 \/ i = 7

\* the attenuations table applied to one channel
Attenuate(v, i) ==
    IF IsDiagonalIndex(i) THEN AttenuationDiagonal(v) ELSE AttenuationAdjacent(v)

ColorAttenuate(c, i) == Color(Attenuate(c.r, i), Attenuate(c.g, i), Attenuate(c.b, i))

\* isWall(p) as stepLightDiffusion calls it on a neighbour: no isValid test
\* precedes it, so a point outside the grid reads memory that is not a cell;
\* junk is what that read yields.
WallRead(walls, p, junk) == IF IsValid(walls, p) THEN IsWall(walls, p) ELSE junk

\* (variant: one wall of the corner is enough to skip the neighbour)
DiagonalBlockedOr(walls, c, i, junk) ==
    /\ IsDiagonalIndex(i)
    /\ \/ WallRead(walls, Point(c.x + DiffusionNeighbors[i + 1].x, c.y), junk)
       \/ WallRead(walls, Point(c.x, c.y + DiffusionNeighbors[i + 1].y), junk)

\* the test that skips a diagonal neighbour (the && short-circuits)
DiagonalBlocked(walls, c, i, junk) ==
    /\ IsDiagonalIndex(i)
    /\ WallRead(walls, Point(c.x + DiffusionNeighbors[i + 1].x, c.y), junk)
    /\ WallRead(walls, Point(c.x, c.y + DiffusionNeighbors[i + 1].y), junk)

\* the out-of-range reads of the wall grid made by that test for cell c
DiagonalReadsOutOfRange(walls, c, i, junk) ==
    /\ IsDiagonalIndex(i)
    /\ \/ ~IsValid(walls, Point(c.x + DiffusionNeighbors[i + 1].x, c.y))
       \/ /\ WallRead(walls, Point(c.x + DiffusionNeighbors[i + 1].x, c.y), junk)
          /\ ~IsValid(walls, Point(c.x, c.y + DiffusionNeighbors[i + 1].y))

\* the loop over the neighbours, from index i on, acc is maxBrightness
RECURSIVE MaxBrightness(_, _, _, _, _, _)
MaxBrightness(walls, read, c, i, acc, junk) ==
    IF i = 8 THEN acc
    ELSE LET sideCell == PAdd(c, DiffusionNeighbors[i + 1])
             next == IF DiagonalBlocked(walls, c, i, junk) THEN acc
                     ELSE IF IsValid(read, sideCell)
                          THEN ColorMax(acc, ColorAttenuate(GridAt(read, sideCell), i))
                          ELSE acc
         IN MaxBrightness(walls, read, c, i + 1, next, junk)

\* (variant: a wall cell keeps what the write side held)
NewBrightnessStale(walls, read, write, c, junk) ==
    IF IsWall(walls, c)
    THEN GridAt(write, c)
    ELSE ColorMax(GridAt(read, c), MaxBrightness(walls, read, c, 0, Black, junk))

\* what the body of the double loop writes to cell c of the write side
NewBrightness(walls, read, write, c, junk) ==
    IF IsWall(walls, c)
    THEN Black
    ELSE ColorMax(GridAt(read, c), MaxBrightness(walls, read, c, 0, Black, junk))

\* (variant: line 441 takes the maximum with write() instead of read())
DiffuseGridFromWrite(walls, read, write, junk) ==
    [yy \in 1..Len(write) |->
        [xx \in 1..Len(write[yy]) |->
            IF yy - 1 < GridHeight(read) /\ xx - 1 < GridWidth(read)
            THEN IF IsWall(walls, Point(xx - 1, yy - 1))
                 THEN Black
                 ELSE ColorMax(write[yy][xx],
                               MaxBrightness(walls, read, Point(xx - 1, yy - 1), 0,
                                             Black, junk))
            ELSE write[yy][xx]]]

\* the write-side grid after the double loop over read()'s width and height
DiffuseGrid(walls, read, write, junk) ==
    [yy \in 1..Len(write) |->
        [xx \in 1..Len(write[yy]) |->
            IF yy - 1 < GridHeight(read) /\ xx - 1 < GridWidth(read)
            THEN NewBrightness(walls, read, write, Point(xx - 1, yy - 1), junk)
            ELSE write[yy][xx]]]

\* some wall-grid read of one sub-step lies outside the grid
StepReadsOutOfRange(walls, read, junk) ==
    \E yy \in 1..GridHeight(read) : \E xx \in 1..GridWidth(read) :
        /\ ~IsWall(walls, Point(xx - 1, yy - 1))
        /\ \E i \in {0, 2, 5, 7} :
              DiagonalReadsOutOfRange(walls, Point(xx - 1, yy - 1), i, junk)

\* what an out-of-range read of the wall grid can yield in this sub-step:
\* either value; where every read is in range no such value is consulted
JunkValues(walls, read) ==
    IF \E yy \in 1..GridHeight(read) : \E xx \in 1..GridWidth(read) :
          /\ ~IsWall(walls, Point(xx - 1, yy - 1))
          /\ \E i \in {0, 2, 5, 7} :
                ~IsValid(walls, PAdd(Point(xx - 1, yy - 1), DiffusionNeighbors[i + 1]))
    THEN BOOLEAN
    ELSE {FALSE}

\* ------------------------------------------------- update(): the forces
Vec2(vx, vy) == [x |-> vx, y |-> vy]

\* m_velocity[i] *= 0.999
Damp(v) == Vec2(TruncDiv(v.x * 999, 1000), TruncDiv(v.y * 999, 1000))

\* Mouse::PosF() - m_lightPos[i].center
ToMouse(mouse, center) ==
    Vec2(mouse.x * PosScale - center.x, mouse.y * PosScale - center.y)

LengthSq(v) == v.x * v.x + v.y * v.y

\* toMouse*0.5*dt, as a displacement per frame: toMouse * 0.5 / 3600
SeekForce(toMouse) == Vec2(TruncDiv(toMouse.x, 7200), TruncDiv(toMouse.y, 7200))

\* -toMouse / toMouse.lengthSq()*10000.0*dt, as a displacement per frame:
\* (toMouse / lengthSq) * PosScale^2 * 10000 / 3600
AvoidForce(toMouse) ==
    Vec2(TruncDiv(-(toMouse.x * ((PosScale * PosScale * 25) \div 9)), LengthSq(toMouse)),
         TruncDiv(-(toMouse.y * ((PosScale * PosScale * 25) \div 9)), LengthSq(toMouse)))

\* RandomVec2(1000.0)*dt for the direction dir, as a displacement per frame
WanderForce(dir) ==
    Vec2(dir.x * ((1000 * PosScale) \div 3600), dir.y * ((1000 * PosScale) \div 3600))

\* 1.0 < toMouse.lengthSq()
FartherThanOne(toMouse) == PosScale * PosScale < LengthSq(toMouse)

\* (variant: MouseM is not consulted)
ForceKindNoMiddle(in, toMouse) ==
    IF in.space
    THEN IF FartherThanOne(toMouse) THEN "avoid" ELSE "none"
    ELSE "wander"

\* which branch of lines 195-209 runs
ForceKind(in, toMouse) ==
    IF in.space
    THEN IF in.m THEN "seek"
         ELSE IF FartherThanOne(toMouse) THEN "avoid" ELSE "none"
    ELSE "wander"

\* the velocity after the damping and the force of this frame
ForcedVelocity(in, center, v, dir) ==
    LET toMouse == ToMouse(in.mouse, center)
        kind == ForceKind(in, toMouse)
        d == Damp(v)
        f == IF kind = "seek" THEN SeekForce(toMouse)
             ELSE IF kind = "avoid" THEN AvoidForce(toMouse)
             ELSE IF kind = "wander" THEN WanderForce(dir)
             ELSE Vec2(0, 0)
    IN Vec2(d.x + f.x, d.y + f.y)

\* --------------------------------------- update(): collision with walls
\* the neighbour table of update(), index j = 0..7 is entry j + 1
CollisionNeighbors ==
    << Point(0, -1), Point(-1, 0), Point(1, 0), Point(0, 1),
       Point(-1, -1), Point(1, -1), Point(-1, 1), Point(1, 1) >>

\* reflectDirection in halves: 2 is +1, -1 is -restitution = -0.5
ReflectDirection ==
    << Vec2(2, -1), Vec2(-1, 2), Vec2(-1, 2), Vec2(2, -1),
       Vec2(-1, -1), Vec2(-1, -1), Vec2(-1, -1), Vec2(-1, -1) >>

\* m_velocity[i].x *= scale.x; m_velocity[i].y *= scale.y
Reflect(v, j) ==
    Vec2(TruncDiv(v.x * ReflectDirection[j + 1].x, 2),
         TruncDiv(v.y * ReflectDirection[j + 1].y, 2))

\* RectF(gridRect(p)).stretched(2.0), <<left, top, right, bottom>> in
\* position units
StretchedRect(p) ==
    << (GridRect(p)[1] - 2) * PosScale, (GridRect(p)[2] - 2) * PosScale,
       (GridRect(p)[3] + 2) * PosScale, (GridRect(p)[4] + 2) * PosScale >>

Cross(a, b, c) == (b.x - a.x) * (c.y - a.y) - (b.y - a.y) * (c.x - a.x)

\* RectF::intersects(Line): the closed segment a-b meets the closed rectangle
Intersects(rect, a, b) ==
    /\ Max(a.x, b.x) >= rect[1]
    /\ Min(a.x, b.x) <= rect[3]
    /\ Max(a.y, b.y) >= rect[2]
    /\ Min(a.y, b.y) <= rect[4]
    /\ LET corners == { Vec2(rect[1], rect[2]), Vec2(rect[3], rect[2]),
                        Vec2(rect[1], rect[4]), Vec2(rect[3], rect[4]) }
       IN /\ \E c \in corners : Cross(a, b, c) >= 0
          /\ \E c \in corners : Cross(a, b, c) <= 0

\* gridA, gridB of a light at center moving by v
GridA(center) == GridPos(AsPoint(center))

GridB(center, v) == GridPos(AsPoint(Vec2(center.x + v.x, center.y + v.y)))

\* the condition of lines 217-229
CollisionEvaluated(walls, center, v) ==
    /\ IsValid(walls, GridA(center))
    /\ IsValid(walls, GridB(center, v))
    /\ GridA(center) # GridB(center, v)
    /\ ~IsWall(walls, GridA(center))

\* the test of line 241 for neighbour j; segEnd is the end of moveSegment
HitsNeighbor(walls, center, segEnd, j) ==
    LET n == PAdd(GridA(center), CollisionNeighbors[j + 1])
    IN /\ IsValid(walls, n)
       /\ IsWall(walls, n)
       /\ Intersects(StretchedRect(n), center, segEnd)

\* (variant: the loop without its break)
RECURSIVE CollisionLoopNoBreak(_, _, _, _, _, _, _)
CollisionLoopNoBreak(walls, center, segEnd, j, v, reflects, applied) ==
    IF j = 8
    THEN [velocity |-> v, applied |-> applied]
    ELSE IF HitsNeighbor(walls, center, segEnd, j)
         THEN CollisionLoopNoBreak(walls, center, segEnd, j + 1, Reflect(v, j),
                                   TRUE, Append(applied, j))
         ELSE CollisionLoopNoBreak(walls, center, segEnd, j + 1, v, reflects, applied)

\* the loop of lines 232-248 from index j on; applied lists the indices
\* whose reflectDirection was applied
RECURSIVE CollisionLoop(_, _, _, _, _, _, _)
CollisionLoop(walls, center, segEnd, j, v, reflects, applied) ==
    IF j = 8 \/ (reflects /\ 4 <= j)
    THEN [velocity |-> v, applied |-> applied]
    ELSE IF HitsNeighbor(walls, center, segEnd, j)
         THEN CollisionLoop(walls, center, segEnd, j + 1, Reflect(v, j),
                            TRUE, Append(applied, j))
         ELSE CollisionLoop(walls, center, segEnd, j + 1, v, reflects, applied)

\* ------------------------------------------------------- inputs explored
\* centres that init() can draw for a light (pixels): the left edge of cell
\* (1, 2) and the middle of cell (2, 2)
InitPixelA == Point(GridUnitPixel, 2 * GridUnitPixel + GridUnitPixel \div 2)
InitPixelB == Point(2 * GridUnitPixel + GridUnitPixel \div 2, 2 * GridUnitPixel + GridUnitPixel \div 2)
InitPositions ==
    { Vec2(InitPixelA.x * PosScale, InitPixelA.y * PosScale),
      Vec2(InitPixelB.x * PosScale, InitPixelB.y * PosScale) }

\* pointer positions (pixels): inside cell (1, 1), three pixels to the right
\* of InitPixelA, and at the right edge of the field, inside a border cell
MouseCorner == Point(GridUnitPixel + GridUnitPixel \div 2, GridUnitPixel + GridUnitPixel \div 2)
MouseNearA == Point(InitPixelA.x + 3, InitPixelA.y)
MouseFar == Point(GridW * GridUnitPixel - 1, InitPixelA.y)

In(mouse, l, r, m, space) ==
    [mouse |-> mouse, l |-> l, r |-> r, m |-> m, space |-> space]

\* the input states of a frame: pointer, MouseL, MouseR, MouseM, KeySpace
Inputs ==
    { In(MouseFar, FALSE, TRUE, TRUE, TRUE),
      In(InitPixelB, TRUE, FALSE, FALSE, FALSE),
      In(InitPixelA, FALSE, FALSE, FALSE, TRUE),
      In(MouseCorner, TRUE, FALSE, FALSE, TRUE),
      In(MouseNearA, FALSE, FALSE, FALSE, TRUE) }

NoInput == In(Point(0, 0), FALSE, FALSE, FALSE, FALSE)

\* directions RandomVec2 is drawn from
WanderDirs == { Vec2(1, 0) }

\* ------------------------------------------------------------------ state
VARIABLES
    m_isWall,               \* Grid2D<char>
    m_buffer,               \* DoubleBuffer::m_buffer, instance k is m_buffer[k + 1]
    m_currentWriteBuffer,   \* DoubleBuffer::m_currentWriteBuffer
    m_lightPos,             \* centres of the lights, light i is entry i + 1
    m_velocity,             \* velocities of the lights
    pc,                     \* where the main loop stands
    light,                  \* i of the loop over the lights
    step,                   \* i of the loop over the diffusion sub-steps
    frame,                  \* update() calls completed
    input,                  \* Input:: and Mouse:: as update() reads them
    force,                  \* the force branch taken for the current light
    applied,                \* indices j reflected in the current light's loop
    velocityBefore,         \* the current light's velocity at loop entry
    outOfRange,             \* the last step read a grid outside its range
    call                    \* the last constructor or member call made from
                            \* outside update(), with the sizes last given

vars == << m_isWall, m_buffer, m_currentWriteBuffer, m_lightPos, m_velocity,
           pc, light, step, frame, input, force, applied, velocityBefore,
           outOfRange, call >>

Call(op, w, h, unit) == [op |-> op, w |-> w, h |-> h, unit |-> unit]

\* Main: Field field(Image(Window::Size(), Palette::White), 32)
MainCall == Call("Field", GridW * GridUnitPixel, GridH * GridUnitPixel, GridUnitPixel)

NumLights == Len(m_lightPos)

m_lightColor(i) == LightColors[i + 1]

ReadGrid == m_buffer[ReadIndex(m_currentWriteBuffer) + 1]

WriteGrid == m_buffer[WriteIndex(m_currentWriteBuffer) + 1]

\* Field::Field and init()
Init ==
    /\ m_isWall = InitWalls(Grid2D(GridW, GridH, FieldSpace))
    /\ m_buffer = << Grid2D(GridW, GridH, Black), Grid2D(GridW, GridH, Black) >>
    /\ m_currentWriteBuffer = 0
    /\ \E n \in 1..MaxLights : m_lightPos \in [1..n -> InitPositions]
    /\ m_velocity = [k \in 1..Len(m_lightPos) |-> Vec2(0, 0)]
    /\ pc = "idle"
    /\ light = 0
    /\ step = 0
    /\ frame = 0
    /\ input = NoInput
    /\ force = "none"
    /\ applied = << >>
    /\ velocityBefore = Vec2(0, 0)
    /\ outOfRange = FALSE
    /\ call = MainCall

\* (variant: no flip between the two resets)
ResetBrightnessNoFlip(buf, cur) ==
    [buffer |-> [buf EXCEPT ![WriteIndex(cur) + 1] = GridReset(@, Black)],
     current |-> cur]

\* resetBrightness(): reset the write side, flip, reset the write side
ResetBrightness(buf, cur) ==
    LET b1 == [buf EXCEPT ![WriteIndex(cur) + 1] = GridReset(@, Black)]
        c1 == FlipIndex(cur)
    IN [buffer |-> [b1 EXCEPT ![WriteIndex(c1) + 1] = GridReset(@, Black)],
        current |-> c1]

\* lines 159-170: the wall edit at the pointer's cell
EditWalls(walls, in) ==
    LET mousePos == MouseGridPos(in.mouse)
        w1 == IF IsValid(walls, mousePos) /\ in.l
              THEN GridSet(walls, mousePos, FieldWall) ELSE walls
    IN IF IsValid(walls, mousePos) /\ in.r
       THEN GridSet(w1, mousePos, FieldSpace)
       ELSE w1

\* System::Update() samples the input; update() runs up to the light loop
UpdateBegin ==
    /\ pc = "idle"
    /\ frame < MaxFrames
    /\ \E in \in Inputs :
        /\ input' = in
        /\ m_isWall' = EditWalls(m_isWall, in)
    /\ m_buffer' = ResetBrightness(m_buffer, m_currentWriteBuffer).buffer
    /\ m_currentWriteBuffer' = ResetBrightness(m_buffer, m_currentWriteBuffer).current
    /\ light' = 0
    /\ pc' = IF NumLights = 0 THEN "flip" ELSE "force"
    /\ outOfRange' = FALSE
    /\ UNCHANGED << m_lightPos, m_velocity, step, frame, force, applied, velocityBefore, call >>

\* lines 190-209: damping and force of light i
LightForce ==
    /\ pc = "force"
    /\ \E dir \in WanderDirs :
        m_velocity' = [m_velocity EXCEPT ![light + 1] =
                          ForcedVelocity(input, m_lightPos[light + 1], @, dir)]
    /\ force' = ForceKind(input, ToMouse(input.mouse, m_lightPos[light + 1]))
    /\ pc' = "collide"
    /\ outOfRange' = FALSE
    /\ UNCHANGED << m_isWall, m_buffer, m_currentWriteBuffer, m_lightPos, light,
                    step, frame, input, applied, velocityBefore, call >>

\* lines 211-249: the collision of light i with the walls
LightCollide ==
    /\ pc = "collide"
    /\ LET center == m_lightPos[light + 1]
           v == m_velocity[light + 1]
           segEnd == Vec2(center.x + v.x, center.y + v.y)
           res == IF CollisionEvaluated(m_isWall, center, v)
                  THEN CollisionLoop(m_isWall, center, segEnd, 0, v, FALSE, << >>)
                  ELSE [velocity |-> v, applied |-> << >>]
       IN /\ m_velocity' = [m_velocity EXCEPT ![light + 1] = res.velocity]
          /\ applied' = res.applied
          /\ velocityBefore' = v
    /\ pc' = "move"
    /\ outOfRange' = FALSE
    /\ UNCHANGED << m_isWall, m_buffer, m_currentWriteBuffer, m_lightPos, light,
                    step, frame, input, force, call >>

\* lines 251-257: the move of light i and its stamp on the write side
LightMove ==
    /\ pc = "move"
    /\ LET center == Vec2(m_lightPos[light + 1].x + m_velocity[light + 1].x,
                          m_lightPos[light + 1].y + m_velocity[light + 1].y)
           pos == GridPos(AsPoint(center))
       IN /\ m_lightPos' = [m_lightPos EXCEPT ![light + 1] = center]
          /\ m_buffer' = IF IsValid(ReadGrid, pos)
                         THEN [m_buffer EXCEPT ![WriteIndex(m_currentWriteBuffer) + 1] =
                                  GridSet(@, pos, m_lightColor(light))]
                         ELSE m_buffer
    /\ light' = light + 1
    /\ pc' = IF light + 1 < NumLights THEN "force" ELSE "flip"
    /\ outOfRange' = FALSE
    /\ UNCHANGED << m_isWall, m_currentWriteBuffer, m_velocity, step, frame, input,
                    force, applied, velocityBefore, call >>

\* line 260: m_brightness.flip(); the input is not read again in this frame
FlipStamped ==
    /\ pc = "flip"
    /\ m_currentWriteBuffer' = FlipIndex(m_currentWriteBuffer)
    /\ step' = 0
    /\ pc' = "diffuse"
    /\ input' = NoInput
    /\ force' = "none"
    /\ applied' = << >>
    /\ velocityBefore' = Vec2(0, 0)
    /\ outOfRange' = FALSE
    /\ UNCHANGED << m_isWall, m_buffer, m_lightPos, m_velocity, light, frame, call >>

\* one stepLightDiffusion() of the loop of lines 262-265
StepLightDiffusion ==
    /\ pc = "diffuse"
    /\ step < SubSteps
    /\ \E junk \in JunkValues(m_isWall, ReadGrid) :
        /\ m_buffer' = [m_buffer EXCEPT ![WriteIndex(m_currentWriteBuffer) + 1] =
                           DiffuseGrid(m_isWall, ReadGrid, WriteGrid, junk)]
        /\ outOfRange' = StepReadsOutOfRange(m_isWall, ReadGrid, junk)
    /\ m_currentWriteBuffer' = FlipIndex(m_currentWriteBuffer)
    /\ step' = step + 1
    /\ pc' = IF step + 1 < SubSteps THEN "diffuse" ELSE "idle"
    /\ frame' = IF step + 1 < SubSteps THEN frame ELSE frame + 1
    /\ UNCHANGED << m_isWall, m_lightPos, m_velocity, light, input, force, applied,
                    velocityBefore, call >>

\* a stepLightDiffusion() whose out-of-range read faults
StepLightDiffusionFault ==
    /\ pc = "diffuse"
    /\ step < SubSteps
    /\ \E junk \in JunkValues(m_isWall, ReadGrid) :
        StepReadsOutOfRange(m_isWall, ReadGrid, junk)
    /\ pc' = "fault"
    /\ outOfRange' = TRUE
    /\ UNCHANGED << m_isWall, m_buffer, m_currentWriteBuffer, m_lightPos, m_velocity,
                    light, step, frame, input, force, applied, velocityBefore, call >>

Next ==
    \/ UpdateBegin
    \/ LightForce
    \/ LightCollide
    \/ LightMove
    \/ FlipStamped
    \/ StepLightDiffusion
    \/ StepLightDiffusionFault

Spec == Init /\ [][Next]_vars

TypeOK ==
    /\ pc \in {"idle", "force", "collide", "move", "flip", "diffuse", "fault"}
    /\ m_currentWriteBuffer \in {0, 1}
    /\ frame \in 0..MaxFrames
    /\ step \in 0..SubSteps

\* ------------------------------------------- the collision step by itself
\* A light in cell (2, 2) at the point where update() reaches the collision
\* test, for the wall layouts that painting the eight cells around it can
\* produce and for positions and velocities that earlier frames can leave.
CollideCell == Point(2, 2)

CollideAround == { PAdd(CollideCell, CollisionNeighbors[j]) : j \in 1..8 }

CollideWalls(painted) ==
    [yy \in 1..GridH |->
        [xx \in 1..GridW |->
            IF Point(xx - 1, yy - 1) \in painted
            THEN FieldWall
            ELSE InitWalls(Grid2D(GridW, GridH, FieldSpace))[yy][xx]]]

\* offsets, in pixels, of the centre from the top-left corner of the cell
CollideOffsets ==
    { Point(GridUnitPixel \div 2, GridUnitPixel \div 2),
      Point(GridUnitPixel \div 2, 1),
      Point(GridUnitPixel - 1, 1),
      Point(1, GridUnitPixel \div 2) }

\* displacements of one frame, in pixels
CollideMoves ==
    { Point(20, 0), Point(-20, 0), Point(0, -20), Point(0, GridUnitPixel),
      Point(20, 20), Point(20, -20), Point(4, -4) }

InitCollide ==
    /\ \E painted \in SUBSET CollideAround : m_isWall = CollideWalls(painted)
    /\ m_buffer = << Grid2D(GridW, GridH, Black), Grid2D(GridW, GridH, Black) >>
    /\ m_currentWriteBuffer = 1
    /\ \E o \in CollideOffsets :
         m_lightPos = << Vec2((GridRect(CollideCell)[1] + o.x) * PosScale,
                              (GridRect(CollideCell)[2] + o.y) * PosScale) >>
    /\ \E d \in CollideMoves : m_velocity = << Vec2(d.x * PosScale, d.y * PosScale) >>
    /\ pc = "collide"
    /\ light = 0
    /\ step = 0
    /\ frame = 0
    /\ input = In(InitPixelB, TRUE, FALSE, FALSE, FALSE)
    /\ force = "wander"
    /\ applied = << >>
    /\ velocityBefore = Vec2(0, 0)
    /\ outOfRange = FALSE
    /\ call = MainCall

NextCollide ==
    \/ LightCollide
    \/ LightMove

SpecCollide == InitCollide /\ [][NextCollide]_vars

\* ---------------------------------------------- DoubleBuffer<T> by itself
\* A DoubleBuffer<Grid2D<ColorF>> under the calls its interface allows, in
\* any order: flip(), and an assignment through the reference write() gives.
\* T is a grid of one row of two cells.
BufferColors == { Black, LightColors[1], LightColors[5] }

BufferValues == { << << a, b >> >> : a \in BufferColors, b \in BufferColors }

\* DoubleBuffer(const T& initial) : m_buffer({ initial, initial })
InitDoubleBuffer ==
    /\ \E initial \in BufferValues : m_buffer = << initial, initial >>
    /\ m_currentWriteBuffer = 0
    /\ m_isWall = << >>
    /\ m_lightPos = << >>
    /\ m_velocity = << >>
    /\ pc = "idle"
    /\ light = 0
    /\ step = 0
    /\ frame = 0
    /\ input = NoInput
    /\ force = "none"
    /\ applied = << >>
    /\ velocityBefore = Vec2(0, 0)
    /\ outOfRange = FALSE
    /\ call = Call("DoubleBuffer", 0, 0, 0)

\* flip()
DoubleBufferFlip ==
    /\ m_currentWriteBuffer' = FlipIndex(m_currentWriteBuffer)
    /\ call' = Call("flip", 0, 0, 0)
    /\ UNCHANGED << m_isWall, m_buffer, m_lightPos, m_velocity, pc, light, step,
                    frame, input, force, applied, velocityBefore, outOfRange >>

\* write() = value
DoubleBufferWrite ==
    /\ \E value \in BufferValues :
         m_buffer' = [m_buffer EXCEPT ![WriteIndex(m_currentWriteBuffer) + 1] = value]
    /\ call' = Call("write", 0, 0, 0)
    /\ UNCHANGED << m_isWall, m_currentWriteBuffer, m_lightPos, m_velocity, pc,
                    light, step, frame, input, force, applied, velocityBefore,
                    outOfRange >>

NextDoubleBuffer ==
    \/ DoubleBufferFlip
    \/ DoubleBufferWrite

SpecDoubleBuffer == InitDoubleBuffer /\ [][NextDoubleBuffer]_vars

\* ------------------------------------------------ Field::Field by itself
\* The constructor for images of every small size and several cell sizes.
\* call holds the image's width and height in pixels and gridUnitPixel.
FieldUnits == { 1, 2, 3 }

\* checkInitialValidness: condition
DividesEvenly(c) == c.w % c.unit = 0 /\ c.h % c.unit = 0

InitField ==
    /\ \E w \in 0..MaxImage, h \in 0..MaxImage, unit \in FieldUnits :
         call = Call("new", w, h, unit)
    /\ m_isWall = << >>
    /\ m_buffer = << << >>, << >> >>
    /\ m_currentWriteBuffer = 0
    /\ m_lightPos = << >>
    /\ m_velocity = << >>
    /\ pc = "new"
    /\ light = 0
    /\ step = 0
    /\ frame = 0
    /\ input = NoInput
    /\ force = "none"
    /\ applied = << >>
    /\ velocityBefore = Vec2(0, 0)
    /\ outOfRange = FALSE

\* The constructor runs to its end.  assert(false) stops it only in a build
\* without NDEBUG; with NDEBUG the assert is no statement and init() runs.
\* gridUnitPixel() in init() divides by m_isWall.height(): with no rows the
\* division is undefined, and returning is one of its outcomes.
FieldConstruct ==
    /\ pc = "new"
    /\ \E ndebug \in BOOLEAN : DividesEvenly(call) \/ ndebug
    /\ m_isWall' = InitWalls(Grid2D(call.w \div call.unit, call.h \div call.unit,
                                    FieldSpace))
    /\ m_buffer' = << Grid2D(call.w \div call.unit, call.h \div call.unit, Black),
                      Grid2D(call.w \div call.unit, call.h \div call.unit, Black) >>
    /\ \E n \in 1..MaxLights : m_lightPos' \in [1..n -> InitPositions]
    /\ m_velocity' = [k \in 1..Len(m_lightPos') |-> Vec2(0, 0)]
    /\ pc' = "idle"
    /\ call' = Call("Field", call.w, call.h, call.unit)
    /\ UNCHANGED << m_currentWriteBuffer, light, step, frame, input, force, applied,
                    velocityBefore, outOfRange >>

\* checkInitialValidness: LOG_ERROR and assert(false) in a build without NDEBUG
FieldConstructAbort ==
    /\ pc = "new"
    /\ ~DividesEvenly(call)
    /\ pc' = "abort"
    /\ UNCHANGED << m_isWall, m_buffer, m_currentWriteBuffer, m_lightPos, m_velocity,
                    light, step, frame, input, force, applied, velocityBefore,
                    outOfRange, call >>

\* init() reached with a grid of no rows: the division by zero traps
FieldConstructFault ==
    /\ pc = "new"
    /\ \E ndebug \in BOOLEAN : DividesEvenly(call) \/ ndebug
    /\ call.h \div call.unit = 0
    /\ pc' = "fault"
    /\ UNCHANGED << m_isWall, m_buffer, m_currentWriteBuffer, m_lightPos, m_velocity,
                    light, step, frame, input, force, applied, velocityBefore,
                    outOfRange, call >>

NextField ==
    \/ FieldConstruct
    \/ FieldConstructAbort
    \/ FieldConstructFault

SpecField == InitField /\ [][NextField]_vars

\* ------------------------------------------------------ Grid2D<T> by itself
\* A Grid2D<char> (m_isWall holds it) under resize and reset calls in any
\* order.  call holds the width and height last given; char() is FieldSpace.
GridValues == { FieldWall, FieldSpace }

\* Grid2D(), Grid2D(x, y) and Grid2D(x, y, value)
InitGrid2D ==
    /\ \/ /\ m_isWall = << >>
          /\ call = Call("Grid2D", 0, 0, 0)
       \/ \E w \in 0..MaxDim, h \in 0..MaxDim :
             /\ m_isWall = Grid2D(w, h, FieldSpace)
             /\ call = Call("Grid2D", w, h, 0)
       \/ \E w \in 0..MaxDim, h \in 0..MaxDim, value \in GridValues :
             /\ m_isWall = Grid2D(w, h, value)
             /\ call = Call("Grid2D", w, h, 0)
    /\ m_buffer = << << >>, << >> >>
    /\ m_currentWriteBuffer = 0
    /\ m_lightPos = << >>
    /\ m_velocity = << >>
    /\ pc = "idle"
    /\ light = 0
    /\ step = 0
    /\ frame = 0
    /\ input = NoInput
    /\ force = "none"
    /\ applied = << >>
    /\ velocityBefore = Vec2(0, 0)
    /\ outOfRange = FALSE

\* resize(x, y)
Grid2DResize ==
    /\ \E w \in 0..MaxDim, h \in 0..MaxDim :
         /\ m_isWall' = GridResize(m_isWall, w, h, FieldSpace)
         /\ call' = Call("resize", w, h, 0)
    /\ UNCHANGED << m_buffer, m_currentWriteBuffer, m_lightPos, m_velocity, pc,
                    light, step, frame, input, force, applied, velocityBefore,
                    outOfRange >>

\* resize(x, y, value)
Grid2DResizeValue ==
    /\ \E w \in 0..MaxDim, h \in 0..MaxDim, value \in GridValues :
         /\ m_isWall' = GridResize(m_isWall, w, h, value)
         /\ call' = Call("resize", w, h, 0)
    /\ UNCHANGED << m_buffer, m_currentWriteBuffer, m_lightPos, m_velocity, pc,
                    light, step, frame, input, force, applied, velocityBefore,
                    outOfRange >>

\* reset(value)
Grid2DReset ==
    /\ \E value \in GridValues : m_isWall' = GridReset(m_isWall, value)
    /\ call' = Call("reset", call.w, call.h, 0)
    /\ UNCHANGED << m_buffer, m_currentWriteBuffer, m_lightPos, m_velocity, pc,
                    light, step, frame, input, force, applied, velocityBefore,
                    outOfRange >>

NextGrid2D ==
    \/ Grid2DResize
    \/ Grid2DResizeValue
    \/ Grid2DReset

SpecGrid2D == InitGrid2D /\ [][NextGrid2D]_vars

\* ------------------------------------------- one update() of the program
\* The field Main constructs (1280 x 736 pixels, 8 lights) in its first
\* update(), from the loop over the lights on: the walls are as init() left
\* them, the buffers as resetBrightness() left them, the lights share one of
\* the centres init() can draw, and the input is any of the inputs explored.
InitWindow ==
    /\ m_isWall = InitWalls(Grid2D(WindowWidth \div GridUnitPixel,
                                   WindowHeight \div GridUnitPixel, FieldSpace))
    /\ m_buffer = << Grid2D(WindowWidth \div GridUnitPixel,
                            WindowHeight \div GridUnitPixel, Black),
                     Grid2D(WindowWidth \div GridUnitPixel,
                            WindowHeight \div GridUnitPixel, Black) >>
    /\ m_currentWriteBuffer = 1
    /\ \E p \in InitPositions : m_lightPos = [k \in 1..InitNum |-> p]
    /\ m_velocity = [k \in 1..InitNum |-> Vec2(0, 0)]
    /\ pc = "force"
    /\ light = 0
    /\ step = 0
    /\ frame = 0
    /\ input \in { in \in Inputs \cup {NoInput} :
                       EditWalls(m_isWall, in) = m_isWall }
    /\ force = "none"
    /\ applied = << >>
    /\ velocityBefore = Vec2(0, 0)
    /\ outOfRange = FALSE
    /\ call = Call("Field", WindowWidth, WindowHeight, GridUnitPixel)

NextWindow ==
    \/ LightForce
    \/ LightCollide
    \/ LightMove
    \/ FlipStamped
    \/ StepLightDiffusion

SpecWindow == InitWindow /\ [][NextWindow]_vars

\* ------------------------------------------ stepLightDiffusion by itself
\* The sub-steps of one update() from the flip of line 260 on, for wall
\* layouts that painting can produce, a light stamped on the read side, and
\* a write side that holds either nothing or stale colour.
StepPainted == { Point(1, 1), Point(2, 1), Point(1, 2), Point(3, 3) }

StepStamps == { Point(2, 2), Point(1, 1), Point(3, 2) }

StaleGrids(g) == { GridReset(g, Black), GridReset(g, LightColors[2]) }

InitStep ==
    /\ \E painted \in SUBSET StepPainted : m_isWall = CollideWalls(painted)
    /\ \E c \in StepStamps, stale \in StaleGrids(Grid2D(GridW, GridH, Black)) :
         /\ m_buffer = << stale, GridSet(Grid2D(GridW, GridH, Black), c, LightColors[1]) >>
         /\ m_lightPos = << Vec2((GridRect(c)[1] + GridUnitPixel \div 2) * PosScale,
                                 (GridRect(c)[2] + GridUnitPixel \div 2) * PosScale) >>
    /\ m_currentWriteBuffer = 0
    /\ m_velocity = << Vec2(0, 0) >>
    /\ pc = "diffuse"
    /\ light = 1
    /\ step = 0
    /\ frame = 0
    /\ input = NoInput
    /\ force = "none"
    /\ applied = << >>
    /\ velocityBefore = Vec2(0, 0)
    /\ outOfRange = FALSE
    /\ call = MainCall

NextStep == StepLightDiffusion

SpecStep == InitStep /\ [][NextStep]_vars

\* ----------------------------------------------------------- properties
Cells == { Point(cx, cy) : cx \in 0..(GridW - 1), cy \in 0..(GridH - 1) }

OnBorder(c) == c.x = 0 \/ c.y = 0 \/ c.x = GridW - 1 \/ c.y = GridH - 1

\* the cell a light is stamped at
LightCell(k) == GridPos(AsPoint(m_lightPos[k]))

\* update() has returned at least once and is not running
AfterUpdate == pc = "idle" /\ frame >= 1

\* a stepLightDiffusion() of the running or the last update() has returned
AfterSubStep == pc \in {"diffuse", "idle"} /\ step >= 1

ChannelsLeq(a, b) == a.r <= b.r /\ a.g <= b.g /\ a.b <= b.b

\* C1: after construction and after any updates, every cell of row 0, the
\* last row, column 0 and the last column of the wall grid is solid.
C1_BorderAlwaysSolid ==
    \A c \in Cells : OnBorder(c) => IsWall(m_isWall, c)

\* C2: every grid access of update() and stepLightDiffusion() uses a
\* coordinate inside the grid; no step reads or writes out of range.
C2_NoOutOfRangeAccess == outOfRange = FALSE

\* C3: if every light's cell is a wall cell in a frame, then after update()
\* every cell of the read-side brightness grid is black.
C3_WallLightsGiveNoLight ==
    (AfterUpdate /\ \A k \in 1..NumLights :
                        IsValid(m_isWall, LightCell(k)) /\ IsWall(m_isWall, LightCell(k)))
    => \A c \in Cells : GridAt(ReadGrid, c) = Black

\* C4: after each stepLightDiffusion(), and so after each update(), every
\* wall cell of the read-side brightness grid is black.
C4_WallCellsBlackAfterSubStep ==
    AfterSubStep => \A c \in Cells : IsWall(m_isWall, c) => GridAt(ReadGrid, c) = Black

\* C4 witness: an update() has returned with a light inside an interior
\* cell that is a wall, so that a buffer held that light's colour there.
C4_Witness ==
    /\ AfterUpdate
    /\ \E k \in 1..NumLights :
          /\ IsValid(m_isWall, LightCell(k))
          /\ ~OnBorder(LightCell(k))
          /\ IsWall(m_isWall, LightCell(k))
          /\ GridAt(ReadGrid, LightCell(k)) = Black
          /\ GridAt(WriteGrid, LightCell(k)) = Black

\* C5: within one update(), for every cell and channel, the read side after
\* a sub-step is at least the read side before it (the stamped buffer for
\* the first sub-step).
C5_SubStepsMonotone ==
    [][(pc = "diffuse" /\ pc' \in {"diffuse", "idle"})
         => \A c \in Cells : ChannelsLeq(GridAt(ReadGrid, c), GridAt(ReadGrid', c))]_vars

DiagonalOffsets == { Point(-1, -1), Point(1, -1), Point(-1, 1), Point(1, 1) }

OrthogonalOffsets == { Point(0, -1), Point(-1, 0), Point(1, 0), Point(0, 1) }

Channels == {"r", "g", "b"}

SetMax(S) == CHOOSE m \in S : \A v \in S : v <= m

\* both cells orthogonally adjacent to c and adjacent to c + d are walls
CornerWalled(c, d) ==
    /\ IsWall(m_isWall, Point(c.x + d.x, c.y))
    /\ IsWall(m_isWall, Point(c.x, c.y + d.y))

\* the candidates for channel ch of cell c when the diagonal neighbour at
\* offset skip is left out: c's own value, 0.9 of each orthogonal neighbour,
\* 0.9^sqrt2 of each other diagonal neighbour whose corner is not walled
CandidatesWithout(c, skip, ch) ==
    {GridAt(ReadGrid, c)[ch]}
    \cup { (GridAt(ReadGrid, PAdd(c, o))[ch] * 9) \div 10 :
              o \in {oo \in OrthogonalOffsets : PAdd(c, oo) \in Cells} }
    \cup { (GridAt(ReadGrid, PAdd(c, e))[ch] * 8616) \div 10000 :
              e \in {ee \in DiagonalOffsets \ {skip} :
                        PAdd(c, ee) \in Cells /\ ~CornerWalled(c, ee)} }

\* C6: in one stepLightDiffusion(), for an open cell c and a diagonal
\* neighbour d: if both cells adjacent to c and to d are walls, d is not a
\* candidate for c's new brightness; otherwise c's new brightness is at
\* least d's read-side brightness times the diagonal attenuation.
C6_DiagonalCornerRule ==
    [][(pc = "diffuse" /\ pc' \in {"diffuse", "idle"})
         => \A c \in Cells : \A d \in DiagonalOffsets :
               (~IsWall(m_isWall, c) /\ PAdd(c, d) \in Cells)
               => \A ch \in Channels :
                     IF CornerWalled(c, d)
                     THEN GridAt(ReadGrid', c)[ch] = SetMax(CandidatesWithout(c, d, ch))
                     ELSE GridAt(ReadGrid', c)[ch]
                            >= (GridAt(ReadGrid, PAdd(c, d))[ch] * 8616) \div 10000]_vars

\* C6 witness: a sub-step has run with a lit open cell across a walled
\* corner from an open cell, and with a lit cell across a corner that has
\* exactly one wall.
C6_Witness ==
    /\ AfterSubStep
    /\ \E c \in Cells : \E d \in DiagonalOffsets :
          /\ ~IsWall(m_isWall, c)
          /\ PAdd(c, d) \in Cells
          /\ CornerWalled(c, d)
          /\ ~IsWall(m_isWall, PAdd(c, d))
          /\ GridAt(ReadGrid, PAdd(c, d)) # Black
    /\ \E c \in Cells : \E d \in DiagonalOffsets :
          /\ ~IsWall(m_isWall, c)
          /\ PAdd(c, d) \in Cells
          /\ IsWall(m_isWall, Point(c.x + d.x, c.y)) # IsWall(m_isWall, Point(c.x, c.y + d.y))
          /\ GridAt(ReadGrid, PAdd(c, d)) # Black

\* one light, in a valid open cell, and no wall but the border ring
SingleLightOpenField ==
    /\ AfterUpdate
    /\ NumLights = 1
    /\ \A c \in Cells : IsWall(m_isWall, c) <=> OnBorder(c)
    /\ LightCell(1) \in Cells
    /\ ~IsWall(m_isWall, LightCell(1))

Times(c, num, den) == Color((c.r * num) \div den, (c.g * num) \div den, (c.b * num) \div den)

\* C7: with a single light in an open cell of a field whose only walls are
\* the border, after update() the read side holds the light's colour at its
\* cell, colour x 0.9 at each open cell one orthogonal step away and
\* colour x 0.9^2 at each open cell two orthogonal steps away in a line.
C7_SingleLightFalloff ==
    SingleLightOpenField
    => /\ GridAt(ReadGrid, LightCell(1)) = m_lightColor(0)
       /\ \A o \in OrthogonalOffsets :
             LET one == PAdd(LightCell(1), o)
                 two == PAdd(one, o)
             IN /\ (one \in Cells /\ ~IsWall(m_isWall, one))
                      => GridAt(ReadGrid, one) = Times(m_lightColor(0), 9, 10)
                /\ (two \in Cells /\ ~IsWall(m_isWall, two))
                      => GridAt(ReadGrid, two) = Times(m_lightColor(0), 81, 100)

\* C7 witness: such a frame has ended with an open cell two steps away.
C7_Witness ==
    /\ SingleLightOpenField
    /\ \E o \in OrthogonalOffsets :
          /\ PAdd(PAdd(LightCell(1), o), o) \in Cells
          /\ ~IsWall(m_isWall, PAdd(PAdd(LightCell(1), o), o))

\* the neighbours of a light's cell in the order update() names them
Up == Point(0, -1)
Left == Point(-1, 0)
Right == Point(1, 0)
Down == Point(0, 1)
NeighborOrder ==
    << Up, Left, Right, Down,
       Point(-1, -1), Point(1, -1), Point(-1, 1), Point(1, 1) >>

\* the movement segment of the current light meets the padded rectangle of
\* the wall cell at offset o from its start cell
RunsInto(o) ==
    LET center == m_lightPos[light + 1]
        n == PAdd(GridPos(AsPoint(center)), o)
    IN /\ n \in Cells
       /\ IsWall(m_isWall, n)
       /\ Intersects(StretchedRect(n), center,
                     Vec2(center.x + velocityBefore.x, center.y + velocityBefore.y))

\* the collision loop has just run for the current light
AfterCollisionLoop ==
    /\ pc = "move"
    /\ CollisionEvaluated(m_isWall, m_lightPos[light + 1], velocityBefore)

\* C8: when the segment runs into a cardinal wall neighbour, after the loop
\* the component perpendicular to that wall is -0.5 times its value before
\* the loop, and the parallel component is unchanged when that neighbour is
\* the only one reflected.
C8_CardinalReflection ==
    AfterCollisionLoop
    => /\ \A o \in {Up, Down} :
             RunsInto(o)
             => /\ 2 * m_velocity[light + 1].y = -velocityBefore.y
                /\ Len(applied) = 1 => m_velocity[light + 1].x = velocityBefore.x
       /\ \A o \in {Left, Right} :
             RunsInto(o)
             => /\ 2 * m_velocity[light + 1].x = -velocityBefore.x
                /\ Len(applied) = 1 => m_velocity[light + 1].y = velocityBefore.y

\* C9: neighbours are tested in the order up, left, right, down, up-left,
\* up-right, down-left, down-right; in a frame where a cardinal neighbour
\* reflected the light no diagonal factor is applied, and a diagonal
\* reflection is applied only where no cardinal one fired.
C9_CardinalBeforeDiagonal ==
    pc = "move"
    => /\ \A k \in 1..Len(applied) : RunsInto(NeighborOrder[applied[k] + 1])
       /\ \A k, l \in 1..Len(applied) : k < l => applied[k] < applied[l]
       /\ (\E k \in 1..Len(applied) : applied[k] < 4)
             => \A k \in 1..Len(applied) : applied[k] < 4
       /\ Cardinality({k \in 1..Len(applied) : applied[k] >= 4}) <= 1
       /\ AfterCollisionLoop
             => /\ \A j \in 0..3 :
                      RunsInto(NeighborOrder[j + 1]) => \E k \in 1..Len(applied) : applied[k] = j
                /\ ((\A j \in 0..3 : ~RunsInto(NeighborOrder[j + 1]))
                      /\ (\E j \in 4..7 : RunsInto(NeighborOrder[j + 1])))
                   => /\ Len(applied) = 1
                      /\ applied[1] >= 4
                      /\ 2 * m_velocity[light + 1].x = -velocityBefore.x
                      /\ 2 * m_velocity[light + 1].y = -velocityBefore.y

\* C9 witness: a cardinal neighbour reflected the light while the segment
\* also met a diagonal wall neighbour.
C9_Witness ==
    /\ AfterCollisionLoop
    /\ \E k \in 1..Len(applied) : applied[k] < 4
    /\ \E j \in 4..7 : RunsInto(NeighborOrder[j + 1])

\* C10 as stated: for every light, frame and input state exactly one of
\* the forces seek, avoid, wander is applied.
C10_ExactlyOneForce ==
    pc = "collide" => force \in {"seek", "avoid", "wander"}

\* C10 amended: exactly one of the three forces is applied, except that none
\* is applied when the modifier key is pressed, the secondary button is not,
\* and the pointer is within distance 1 of the light.
C10_OneForceUnlessPointerNear ==
    pc = "collide"
    => LET toMouse == ToMouse(input.mouse, m_lightPos[light + 1])
       IN /\ force \in {"seek", "avoid", "wander", "none"}
          /\ force = "seek" <=> (input.space /\ input.m)
          /\ force = "wander" <=> ~input.space
          /\ force = "none" <=> (input.space /\ ~input.m
                                   /\ LengthSq(toMouse) <= PosScale * PosScale)

\* C10 witness: the modifier key is pressed with the secondary button, so
\* the seeking branch is the one taken.
C10_Witness ==
    /\ pc = "collide"
    /\ input.space
    /\ input.m
    /\ force = "seek"

\* C11: a DoubleBuffer built from an initial value holds that value twice;
\* read() and write() are always two different instances; an assignment
\* through write() leaves read() as it was; flip() exchanges the two roles
\* and changes neither instance, so that two flips restore the roles.
C11_DoubleBufferRoles ==
    [][ /\ call.op = "DoubleBuffer" => m_buffer[1] = m_buffer[2]
        /\ ReadIndex(m_currentWriteBuffer) # WriteIndex(m_currentWriteBuffer)
        /\ ReadIndex(m_currentWriteBuffer') # WriteIndex(m_currentWriteBuffer')
        /\ {ReadIndex(m_currentWriteBuffer'), WriteIndex(m_currentWriteBuffer')} = {0, 1}
        /\ call'.op = "write" => ReadGrid' = ReadGrid
        /\ call'.op = "flip" =>
              /\ m_buffer' = m_buffer
              /\ ReadGrid' = WriteGrid
              /\ WriteGrid' = ReadGrid
              /\ FlipIndex(m_currentWriteBuffer') = m_currentWriteBuffer ]_vars

\* a flip of a buffer whose two instances differ
C11_Witness ==
    /\ call.op = "flip"
    /\ m_buffer[1] # m_buffer[2]
    /\ m_currentWriteBuffer = 1

\* C12: right after Field construction, for every grid width and height, a
\* cell of the wall grid is solid exactly if it lies in row 0, the last row,
\* column 0 or the last column; the grid has the size image / cell size.
C12_InitWallsBorderOnly ==
    (pc = "idle" /\ call.op = "Field") =>
        LET w == call.w \div call.unit
            h == call.h \div call.unit
        IN /\ Len(m_isWall) = h
           /\ \A y \in 0..(h - 1) :
                /\ Len(m_isWall[y + 1]) = w
                /\ \A x \in 0..(w - 1) :
                      IsWall(m_isWall, Point(x, y))
                          <=> (x = 0 \/ y = 0 \/ x = w - 1 \/ y = h - 1)

\* a constructed field that is a single cell wide and several cells high
C12_Witness ==
    /\ pc = "idle"
    /\ call.op = "Field"
    /\ GridWidth(m_isWall) = 1
    /\ GridHeight(m_isWall) >= 3

\* C13: constructing a Field whose image width or height is no multiple of
\* the cell size always ends in the fatal error: init() never runs and no
\* Field results.
C13_NonDividingAlwaysFails ==
    ~DividesEvenly(call) => pc \in {"new", "abort"}

\* C14: for a Grid2D after construction and any resize and reset calls, and
\* for every integer point p, negative coordinates included, isValid(p) is
\* true exactly if 0 <= p.x < width() and 0 <= p.y < height(); height() and
\* width() are the sizes last given, and width() is 0 without rows.
C14_IsValidIffInRange ==
    /\ GridHeight(m_isWall) = call.h
    /\ GridWidth(m_isWall) = (IF call.h = 0 THEN 0 ELSE call.w)
    /\ \A px \in (-1)..(MaxDim + 1), py \in (-1)..(MaxDim + 1) :
          IsValid(m_isWall, Point(px, py))
              <=> /\ 0 <= px
                  /\ px < GridWidth(m_isWall)
                  /\ 0 <= py
                  /\ py < GridHeight(m_isWall)

\* a grid that was resized, shrunk to fewer rows and reset
C14_Witness ==
    /\ call.op = "reset"
    /\ GridWidth(m_isWall) = MaxDim
    /\ GridHeight(m_isWall) = 1

\* C15: in every frame, after resetBrightness() and before any light is
\* stamped, every cell of both instances of the brightness buffer is black,
\* whatever the frame before left in them.
C15_BothBuffersBlackBeforeStamp ==
    (pc \in {"force", "collide", "move"} /\ light = 0) =>
        \A k \in {1, 2} :
            \A y \in 1..Len(m_buffer[k]) : \A x \in 1..Len(m_buffer[k][y]) :
                m_buffer[k][y][x] = Black

\* the second frame has reset the buffers the first frame lit
C15_Witness ==
    /\ frame >= 1
    /\ pc = "force"
    /\ light = 0
    /\ \E k \in 1..NumLights : IsValid(m_isWall, LightCell(k))

\* C16: on the program's own field of 40 x 23 cells, for every placement of
\* the lights and walls, the read side after update() is a fixed point of the
\* diffusion step: one more stepLightDiffusion() would change no cell.
C16_ConvergedAfterUpdate ==
    AfterUpdate =>
        \A junk \in JunkValues(m_isWall, ReadGrid) :
            DiffuseGrid(m_isWall, ReadGrid, WriteGrid, junk) = ReadGrid

\* C17: a light whose centre is in a valid open cell when its motion step
\* begins does not have its centre in a wall cell after the position update
\* of that frame, for any velocity and any wall layout.
C17_LightsStayOutOfWalls ==
    [][ ( /\ pc = "move"
          /\ IsValid(m_isWall, LightCell(light + 1))
          /\ ~IsWall(m_isWall, LightCell(light + 1)) )
        => LET pos == GridPos(AsPoint(m_lightPos'[light + 1]))
           IN ~(IsValid(m_isWall, pos) /\ IsWall(m_isWall, pos)) ]_vars

\* C18: after update(), for each light whose final cell is a valid open cell,
\* the read-side brightness at that cell is per channel at least that
\* light's colour, also when several lights occupy the same cell.
C18_LightVisibleAtOwnCell ==
    AfterUpdate =>
        \A k \in 1..NumLights :
            (IsValid(m_isWall, LightCell(k)) /\ ~IsWall(m_isWall, LightCell(k)))
                => ChannelsLeq(m_lightColor(k - 1), GridAt(ReadGrid, LightCell(k)))

\* C19: a stepLightDiffusion() assigns every cell of the write side and reads
\* only the read side and the walls: the grid it produces is the same for
\* any stale content of the write side, and the call leaves the wall grid
\* and the lights as they were.
C19_StepIgnoresStaleWrite ==
    [][ (pc = "diffuse" /\ pc' \in {"diffuse", "idle"}) =>
          /\ \A stale \in StaleGrids(WriteGrid) :
                \A junk \in JunkValues(m_isWall, ReadGrid) :
                    ReadGrid' = DiffuseGrid(m_isWall, ReadGrid, stale, junk)
          /\ WriteGrid' = ReadGrid
          /\ m_isWall' = m_isWall
          /\ m_lightPos' = m_lightPos
          /\ m_velocity' = m_velocity ]_vars

\* the first sub-step has run for a light stamped at (2, 2) below a painted
\* wall: the wall cell is black and the open cell to the right is lit
C19_Witness ==
    /\ pc = "diffuse"
    /\ step = 1
    /\ IsWall(m_isWall, Point(2, 1))
    /\ GridAt(WriteGrid, Point(2, 2)) = LightColors[1]
    /\ GridAt(ReadGrid, Point(2, 1)) = Black
    /\ GridAt(ReadGrid, Point(3, 2)) # Black

====
